---- MODULE Spec2Model ----
(***************************************************************************)
(* Conversation memory store (src/src/memory/conversation_memory.py) and   *)
(* agent execution orchestrator (src/src/agent/llm_agent.py,               *)
(* src/src/agent/base_agent.py).                                           *)
(*                                                                         *)
(* Texts that the code only splits on whitespace are sequences of words;   *)
(* entry contents, which the code measures and searches, are sequences of  *)
(* characters.  Timestamps are readings of an integer clock `now`, one     *)
(* unit being one day.  Fields the modelled operations never read (entry   *)
(* id, metadata) are left out of the entry records.                        *)
(***************************************************************************)
EXTENDS Integers, Sequences, FiniteSets, TLC

\* ------------------------------------------------------------------ bounds
\* store calls in one behaviour
MaxOps == 3
\* last clock reading
MaxTime == 1
\* largest limit / num_messages argument
MaxLimit == 2
\* largest days argument
MaxDays == 1
\* execute calls in one behaviour
MaxTurns == 2
\* items in one gateway answer
MaxResults == 2
\* items in a long answer of the retrieval gateway
MaxSnippets == 4
\* process_tool_call calls in one behaviour
MaxToolCalls == 3
\* largest result cap passed to a vector search
MaxTopK == 6

\* max_memory_size is a constructor argument (default 50); scaled down
max_memory_size == 2

None == "None"            \* a missing Optional[str]
NoInt == <<>>             \* a missing Optional[int]
Some(n) == <<n>>          \* a present Optional[int]
ConvIds == {7, 9}
Roles == {"user", "assistant", "system"}
Contents == {<<"a">>, <<"A", "b">>}
\* the (role, content) pairs add_entry is called with
Inputs == {<<"user", <<"a">>>>, <<"user", <<"A", "b">>>>,
           <<"assistant", <<"A", "b">>>>, <<"system", <<"a">>>>}
Procs == {1, 2}
\* texts are sequences of whitespace-separated words
UserInputs == {<<"q", "q">>}
Responses == {<<"r">>, <<"r", "r">>}
\* a user_input that is no str (None)
NonText == <<"<None>">>
\* str(e) of the faults the turn meets
LenFault == <<"object", "of", "type", "NoneType", "has", "no", "len()">>
GenFaults == {<<"timeout">>}
\* tool names: one the registry holds and one it does not
ToolNames == {"calculator", "translator"}
\* similarity scores in hundredths
Scores == {50, 70}
\* content of the i-th item the gateway returns
Docs == <<"d1", "d2", "d3", "d4", "d5">>
Keywords == {<<"a">>, <<"B">>}
\* format arguments of export_conversation: the three of the docstring and one
\* outside them
Formats == {"json", "txt", "csv", "xml"}
Limits == {NoInt} \cup {Some(n) : n \in 0..MaxLimit}
DaysArgs == 0..MaxDays

VARIABLES
    memory_cache,          \* ConversationMemory.memory_cache
    now,                   \* the clock datetime.utcnow() reads
    ret,                   \* the last store call: its arguments and outcome
    nops,                  \* number of store calls made
    log,                   \* per conversation, the entries add_entry appended
                           \* since the conversation's list was created
    pruned,                \* per conversation, whether cleanup removed entries
    status,                \* BaseAgente.status of the shared agent
    conversation_history,  \* BaseAgente.conversation_history
    pc,                    \* per call of execute, where it is suspended
    loc,                   \* per call of execute, its local variables
    result,                \* the call of execute that ended last: what its
                           \* caller received
    nexec,                 \* number of execute calls started
    tcall,                 \* per call of process_tool_call, where it is
                           \* suspended and the tool it names
    tresult,               \* the call of process_tool_call that ended last
    ntool,                 \* number of process_tool_call calls started
    conversation_cache,    \* ConversationMemory.conversation_cache
    rturn,                 \* per call of the execute_agent route, where it is
                           \* suspended and what it was asked
    vsearch                \* the last call of a vector search: its arguments
                           \* and what it returned

memvars == <<memory_cache, now, ret, nops, log, pruned, conversation_cache>>

agentvars == <<status, conversation_history, pc, loc, result, nexec>>

toolvars == <<tcall, tresult, ntool>>

vars == <<memory_cache, now, ret, nops, log, pruned,
          status, conversation_history, pc, loc, result, nexec,
          tcall, tresult, ntool, conversation_cache, rturn, vsearch>>

\* ----------------------------------------------------------- list helpers
Min(a, b) == IF a < b THEN a ELSE b

\* the last n items of s (all of s when n >= Len(s))
LastN(s, n) == IF n >= Len(s) THEN s ELSE SubSeq(s, Len(s) - n + 1, Len(s))

\* Python s[-k:] for k > 0
SliceLast(s, k) == IF k >= Len(s) THEN s ELSE SubSeq(s, Len(s) - k + 1, Len(s))

\* Python list.pop(0)
PopFirst(s) == SubSeq(s, 2, Len(s))

PopLast(s) == SubSeq(s, 1, Len(s) - 1)

\* Python list.remove(e): drops the first item equal to e
RECURSIVE ListRemove(_, _)
ListRemove(s, e) ==
    IF s = <<>> THEN <<>>
    ELSE IF Head(s) = e THEN Tail(s)
    ELSE <<Head(s)>> \o ListRemove(Tail(s), e)

RECURSIVE SumLen(_)
SumLen(s) == IF s = <<>> THEN 0 ELSE Len(Head(s).content) + SumLen(Tail(s))

\* Python truthiness of an Optional[int]
Truthy(x) == x # NoInt /\ x[1] # 0

\* what a call hands to its caller: a value, or an exception
Return(v) == [raised |-> FALSE, value |-> v]

Raise(kind) == [raised |-> TRUE, value |-> kind]

\* -------------------------------------------------- ConversationEntry
ConversationEntry(c, role, content, t) ==
    [conversation_id |-> c, role |-> role, content |-> content, timestamp |-> t]

Known(mc, c) == c \in DOMAIN mc

\* memory_cache with key c bound to list l
SetList(mc, c, l) == [x \in DOMAIN mc \cup {c} |-> IF x = c THEN l ELSE mc[x]]

DelKey_all(mc, c) == [x \in {} |-> <<>>]

\* memory_cache with key c deleted
DelKey(mc, c) == [x \in DOMAIN mc \ {c} |-> mc[x]]

\* ------------------------------------------------------------- add_entry
add_entry_prepend(mc, c, role, content, t) ==
    LET l0 == IF Known(mc, c) THEN mc[c] ELSE <<>>
        l1 == <<ConversationEntry(c, role, content, t)>> \o l0
    IN  SetList(mc, c, IF Len(l1) > max_memory_size THEN PopLast(l1) ELSE l1)

add_entry_pop_newest(mc, c, role, content, t) ==
    LET l0 == IF Known(mc, c) THEN mc[c] ELSE <<>>
        l1 == Append(l0, ConversationEntry(c, role, content, t))
    IN  SetList(mc, c, IF Len(l1) > max_memory_size THEN PopLast(l1) ELSE l1)

add_entry(mc, c, role, content, t) ==
    LET l0 == IF Known(mc, c) THEN mc[c] ELSE <<>>
        l1 == Append(l0, ConversationEntry(c, role, content, t))
    IN  SetList(mc, c, IF Len(l1) > max_memory_size THEN PopFirst(l1) ELSE l1)

\* ------------------------------------------------ get_conversation_history
NotSystem(e) == e.role # "system"

get_conversation_history(mc, c, limit, include_system) ==
    IF ~Known(mc, c) THEN <<>>
    ELSE LET h0 == mc[c]
             h1 == IF ~include_system THEN SelectSeq(h0, NotSystem) ELSE h0
         IN  IF Truthy(limit) THEN SliceLast(h1, limit[1]) ELSE h1

\* whether the list get_conversation_history returns is the very list object
\* of memory_cache: `history` is rebound to a new list only by the system
\* filter and by the slice of a truthy limit
ReturnsOwnList(known, limit, include_system) ==
    known /\ include_system /\ ~Truthy(limit)

\* ------------------------------------------------ get_conversation_context
ContextHeader == "Historico de conversacao anterior:\n"

RoleContext(role) == IF role = "user" THEN "Usuario" ELSE "Assistente"

RECURSIVE ContextLines(_)
ContextLines(h) ==
    IF h = <<>> THEN <<>>
    ELSE <<RoleContext(Head(h).role), ": ">> \o Head(h).content
         \o ContextLines(Tail(h))

\* the text is the sequence of its pieces; "" is the empty sequence
get_conversation_context_no_guard(mc, c, num_messages) ==
    LET history == get_conversation_history(mc, c, num_messages, TRUE)
    IN  <<ContextHeader>> \o ContextLines(history)

get_conversation_context(mc, c, num_messages) ==
    LET history == get_conversation_history(mc, c, num_messages, TRUE)
    IN  IF history = <<>> THEN <<>>
        ELSE <<ContextHeader>> \o ContextLines(history)

\* ------------------------------------------------------ clear_conversation
clear_conversation_keep_key(mc, c) ==
    IF Known(mc, c) THEN [store |-> SetList(mc, c, <<>>), value |-> TRUE]
    ELSE [store |-> mc, value |-> FALSE]

\* the store after the call and the value returned
clear_conversation(mc, c) ==
    IF Known(mc, c) THEN [store |-> DelKey(mc, c), value |-> TRUE]
    ELSE [store |-> mc, value |-> FALSE]

\* -------------------------------------------------------- get_memory_stats
\* the global store's retention_days
retention_days == 30

RECURSIVE SumEntries(_, _)
SumEntries(mc, keys) ==
    IF keys = {} THEN 0
    ELSE LET k == CHOOSE x \in keys : TRUE
         IN  Len(mc[k]) + SumEntries(mc, keys \ {k})

get_memory_stats(mc) ==
    [total_conversations |-> Cardinality(DOMAIN mc),
     total_entries |-> SumEntries(mc, DOMAIN mc),
     max_memory_size |-> max_memory_size,
     retention_days |-> retention_days,
     conversations_breakdown |-> [conv_id \in DOMAIN mc |-> Len(mc[conv_id])]]

\* ---------------------------------------------------------- get_statistics
IsUser(e) == e.role = "user"

IsAssistant(e) == e.role = "assistant"

\* datetime.isoformat(): the text that denotes the instant t
IsoFormat(t) == <<"iso", t>>

\* round(total / n, 2) in hundredths; total / n has no tie at the third
\* decimal for n < 8
Round2(total, n) == (200 * total + n) \div (2 * n)

get_statistics_not_user(mc, c) ==
    LET history == get_conversation_history(mc, c, NoInt, TRUE)
        IsOther(e) == e.role # "user"
        user_messages == SelectSeq(history, IsUser)
        assistant_messages == SelectSeq(history, IsOther)
    IN  [conversation_id |-> c,
         total_messages |-> Len(history),
         user_messages |-> Len(user_messages),
         assistant_messages |-> Len(assistant_messages),
         total_characters |-> SumLen(history),
         avg_user_message_length |->
             IF user_messages # <<>>
             THEN Round2(SumLen(user_messages), Len(user_messages)) ELSE 0,
         avg_assistant_message_length |->
             IF assistant_messages # <<>>
             THEN Round2(SumLen(assistant_messages), Len(assistant_messages))
             ELSE 0,
         first_message |->
             IF history # <<>> THEN IsoFormat(history[1].timestamp)
             ELSE <<None>>,
         last_message |->
             IF history # <<>> THEN IsoFormat(history[Len(history)].timestamp)
             ELSE <<None>>]

get_statistics(mc, c) ==
    LET history == get_conversation_history(mc, c, NoInt, TRUE)
        user_messages == SelectSeq(history, IsUser)
        assistant_messages == SelectSeq(history, IsAssistant)
    IN  [conversation_id |-> c,
         total_messages |-> Len(history),
         user_messages |-> Len(user_messages),
         assistant_messages |-> Len(assistant_messages),
         total_characters |-> SumLen(history),
         avg_user_message_length |->
             IF user_messages # <<>>
             THEN Round2(SumLen(user_messages), Len(user_messages)) ELSE 0,
         avg_assistant_message_length |->
             IF assistant_messages # <<>>
             THEN Round2(SumLen(assistant_messages), Len(assistant_messages))
             ELSE 0,
         first_message |->
             IF history # <<>> THEN IsoFormat(history[1].timestamp)
             ELSE <<None>>,
         last_message |->
             IF history # <<>> THEN IsoFormat(history[Len(history)].timestamp)
             ELSE <<None>>]

\* ------------------------------------------------------- search_in_history
\* str.lower() on the alphabet of Contents and Keywords
LowerChar(ch) == IF ch = "A" THEN "a" ELSE IF ch = "B" THEN "b" ELSE ch

Lower(s) == [i \in 1..Len(s) |-> LowerChar(s[i])]

\* Python `k in s` on strings
IsSubstr(k, s) ==
    \E i \in 0..(Len(s) - Len(k)) : SubSeq(s, i + 1, i + Len(k)) = k

search_in_history(mc, c, keyword, search_in_role) ==
    LET history == get_conversation_history(mc, c, NoInt, TRUE)
        keyword_lower == Lower(keyword)
        Match(e) == /\ ~(search_in_role # None /\ e.role # search_in_role)
                    /\ IsSubstr(keyword_lower, Lower(e.content))
    IN  SelectSeq(history, Match)

\* ------------------------------------------------------ export_conversation
\* the model's entries are added with no entry_id and no metadata
to_dict(e) ==
    [id |-> -1, conversation_id |-> e.conversation_id, role |-> e.role,
     content |-> e.content, timestamp |-> IsoFormat(e.timestamp),
     metadata |-> <<>>]

\* JSON text is the sequence of its tokens; a number and a string are written
\* as tagged tokens
JsonNumber(n) == <<"num", n>>

JsonString(s) == <<"str", s>>

\* the empty dict that to_dict writes for metadata None
JsonEmptyObject == <<"obj">>

JsonObject(d) ==
    <<"{", "id", JsonNumber(d.id),
      "conversation_id", JsonNumber(d.conversation_id),
      "role", JsonString(d.role),
      "content", JsonString(d.content),
      "timestamp", JsonString(d.timestamp),
      "metadata", JsonEmptyObject, "}">>

\* tokens of one object
ObjectSize == 14

RECURSIVE JsonItems(_)
JsonItems(data) ==
    IF data = <<>> THEN <<>>
    ELSE JsonObject(Head(data)) \o JsonItems(Tail(data))

\* json.dumps of a list of to_dict records
JsonDumps(data) == <<"[">> \o JsonItems(data) \o <<"]">>

ExportJson(history) ==
    JsonDumps([i \in 1..Len(history) |-> to_dict(history[i])])

RoleExport(role) == IF role = "user" THEN "USUARIO" ELSE "ASSISTENTE"

RECURSIVE TxtItems(_)
TxtItems(history) ==
    IF history = <<>> THEN <<>>
    ELSE <<"[", RoleExport(Head(history).role), "]",
           IsoFormat(Head(history).timestamp), Head(history).content>>
         \o TxtItems(Tail(history))

ExportTxt(c, history, t) ==
    <<"Conersacao ID:", c, "Gerada em:", IsoFormat(t), "====">>
    \o TxtItems(history)

\* json.loads of the text JsonDumps wrote: the list of the dicts it reads
JsonValue(tok) == IF tok[1] = "obj" THEN <<>> ELSE tok[2]

JsonLoadObject(o) ==
    LET keys == {o[2 * j] : j \in 1..((Len(o) - 2) \div 2)}
    IN  [k \in keys |->
            JsonValue(o[1 + CHOOSE n \in 1..Len(o) : n % 2 = 0 /\ o[n] = k])]

RECURSIVE JsonLoadItems(_)
JsonLoadItems(toks) ==
    IF toks = <<>> THEN <<>>
    ELSE <<JsonLoadObject(SubSeq(toks, 1, ObjectSize))>>
         \o JsonLoadItems(SubSeq(toks, ObjectSize + 1, Len(toks)))

JsonLoads(text) == JsonLoadItems(SubSeq(text, 2, Len(text) - 1))

\* datetime.fromisoformat: the instant an isoformat text denotes
FromIsoFormat(text) == text[2]

\* what the call hands back under each format; csv.writer has no attribute
\* wrtiterow, so the csv branch raises before it writes a row
export_conversation_no_system(mc, c, format, t) ==
    LET history == get_conversation_history(mc, c, NoInt, FALSE)
    IN  IF format = "json" THEN Return(ExportJson(history))
        ELSE IF format = "txt" THEN Return(ExportTxt(c, history, t))
        ELSE IF format = "csv" THEN Raise("AttributeError")
        ELSE Raise("ValueError")

export_conversation(mc, c, format, t) ==
    LET history == get_conversation_history(mc, c, NoInt, TRUE)
    IN  IF format = "json" THEN Return(ExportJson(history))
        ELSE IF format = "txt" THEN Return(ExportTxt(c, history, t))
        ELSE IF format = "csv" THEN Raise("AttributeError")
        ELSE Raise("ValueError")

\* ------------------------------------------------------ get_oldest_entries
get_oldest_entries_inclusive(mc, c, days, t) ==
    LET history == get_conversation_history(mc, c, NoInt, TRUE)
        cutoff_date == t - days
        Old(e) == e.timestamp <= cutoff_date
    IN  SelectSeq(history, Old)

get_oldest_entries(mc, c, days, t) ==
    LET history == get_conversation_history(mc, c, NoInt, TRUE)
        cutoff_date == t - days
        Old(e) == e.timestamp < cutoff_date
    IN  SelectSeq(history, Old)

\* ----------------------------------------------------- cleanup_old_entries
RECURSIVE RemoveAll(_, _)
RemoveAll(l, old_entries) ==
    IF old_entries = <<>> THEN l
    ELSE RemoveAll(ListRemove(l, Head(old_entries)), Tail(old_entries))

\* the store after the call and the value returned
cleanup_old_entries(mc, c, days, t) ==
    IF ~Known(mc, c) THEN [store |-> mc, value |-> 0]
    ELSE LET old_entries == get_oldest_entries(mc, c, days, t)
         IN  IF old_entries = <<>> THEN [store |-> mc, value |-> 0]
             ELSE [store |-> SetList(mc, c, RemoveAll(mc[c], old_entries)),
                   value |-> Len(old_entries)]

\* ============================================================ store calls
\* prev: what the call before returned, when this is clear_conversation
\* called again on the same conversation with no other call in between
Call(op, c, args, out) ==
    [op |-> op, conv |-> c, known |-> Known(memory_cache, c), args |-> args,
     raised |-> out.raised, value |-> out.value,
     prev |-> IF op = "clear_conversation" /\ ret.op = op /\ ret.conv = c
              THEN <<ret.value>> ELSE <<>>]

AddEntry(c, role, content) ==
    /\ nops < MaxOps
    /\ memory_cache' = add_entry(memory_cache, c, role, content, now)
    /\ log' = [log EXCEPT ![c] =
                  Append(@, ConversationEntry(c, role, content, now))]
    /\ nops' = nops + 1
    /\ ret' = Call("add_entry", c, <<role, content>>,
                   Return(ConversationEntry(c, role, content, now)))
    /\ UNCHANGED <<now, pruned>>
    /\ UNCHANGED agentvars
    /\ UNCHANGED toolvars
    /\ UNCHANGED <<conversation_cache, rturn, vsearch>>

GetConversationHistory_creates(c, limit, include_system) ==
    /\ nops < MaxOps
    /\ nops' = nops + 1
    /\ ret' = Call("get_conversation_history", c, <<limit, include_system>>,
                   Return(get_conversation_history(memory_cache, c, limit,
                                                   include_system)))
    /\ memory_cache' = IF Known(memory_cache, c) THEN memory_cache
                       ELSE SetList(memory_cache, c, <<>>)
    /\ UNCHANGED <<now, log, pruned>>
    /\ UNCHANGED agentvars
    /\ UNCHANGED toolvars
    /\ UNCHANGED <<conversation_cache, rturn, vsearch>>

GetConversationHistory(c, limit, include_system) ==
    /\ nops < MaxOps
    /\ nops' = nops + 1
    /\ ret' = Call("get_conversation_history", c, <<limit, include_system>>,
                   Return(get_conversation_history(memory_cache, c, limit,
                                                   include_system)))
    /\ UNCHANGED <<memory_cache, now, log, pruned>>
    /\ UNCHANGED agentvars
    /\ UNCHANGED toolvars
    /\ UNCHANGED <<conversation_cache, rturn, vsearch>>

GetConversationContext(c, num_messages) ==
    /\ nops < MaxOps
    /\ nops' = nops + 1
    /\ ret' = Call("get_conversation_context", c, <<num_messages>>,
                   Return(get_conversation_context(memory_cache, c,
                                                   Some(num_messages))))
    /\ UNCHANGED <<memory_cache, now, log, pruned>>
    /\ UNCHANGED agentvars
    /\ UNCHANGED toolvars
    /\ UNCHANGED <<conversation_cache, rturn, vsearch>>

ClearConversation(c) ==
    /\ nops < MaxOps
    /\ LET r == clear_conversation(memory_cache, c)
       IN  /\ memory_cache' = r.store
           /\ ret' = Call("clear_conversation", c, <<>>, Return(r.value))
    /\ log' = [log EXCEPT ![c] = <<>>]
    /\ pruned' = [pruned EXCEPT ![c] = FALSE]
    /\ nops' = nops + 1
    /\ UNCHANGED now
    /\ UNCHANGED agentvars
    /\ UNCHANGED toolvars
    /\ UNCHANGED <<conversation_cache, rturn, vsearch>>

GetStatistics(c) ==
    /\ nops < MaxOps
    /\ nops' = nops + 1
    /\ ret' = Call("get_statistics", c, <<>>,
                   Return(get_statistics(memory_cache, c)))
    /\ UNCHANGED <<memory_cache, now, log, pruned>>
    /\ UNCHANGED agentvars
    /\ UNCHANGED toolvars
    /\ UNCHANGED <<conversation_cache, rturn, vsearch>>

SearchInHistory(c, keyword, search_in_role) ==
    /\ nops < MaxOps
    /\ nops' = nops + 1
    /\ ret' = Call("search_in_history", c, <<keyword, search_in_role>>,
                   Return(search_in_history(memory_cache, c, keyword,
                                            search_in_role)))
    /\ UNCHANGED <<memory_cache, now, log, pruned>>
    /\ UNCHANGED agentvars
    /\ UNCHANGED toolvars
    /\ UNCHANGED <<conversation_cache, rturn, vsearch>>

GetOldestEntries(c, days) ==
    /\ nops < MaxOps
    /\ nops' = nops + 1
    /\ ret' = Call("get_oldest_entries", c, <<days>>,
                   Return(get_oldest_entries(memory_cache, c, days, now)))
    /\ UNCHANGED <<memory_cache, now, log, pruned>>
    /\ UNCHANGED agentvars
    /\ UNCHANGED toolvars
    /\ UNCHANGED <<conversation_cache, rturn, vsearch>>

CleanupOldEntries(c, days) ==
    /\ nops < MaxOps
    /\ LET r == cleanup_old_entries(memory_cache, c, days, now)
       IN  /\ memory_cache' = r.store
           /\ ret' = Call("cleanup_old_entries", c, <<days>>, Return(r.value))
           /\ pruned' = [pruned EXCEPT ![c] = @ \/ r.value > 0]
    /\ nops' = nops + 1
    /\ UNCHANGED <<now, log>>
    /\ UNCHANGED agentvars
    /\ UNCHANGED toolvars
    /\ UNCHANGED <<conversation_cache, rturn, vsearch>>

ExportConversation(c, format) ==
    /\ nops < MaxOps
    /\ nops' = nops + 1
    /\ ret' = Call("export_conversation", c, <<format>>,
                   export_conversation(memory_cache, c, format, now))
    /\ UNCHANGED <<memory_cache, now, log, pruned>>
    /\ UNCHANGED agentvars
    /\ UNCHANGED toolvars
    /\ UNCHANGED <<conversation_cache, rturn, vsearch>>

GetMemoryStats ==
    /\ nops < MaxOps
    /\ nops' = nops + 1
    /\ ret' = Call("get_memory_stats", 0, <<>>,
                   Return(get_memory_stats(memory_cache)))
    /\ UNCHANGED <<memory_cache, now, log, pruned>>
    /\ UNCHANGED agentvars
    /\ UNCHANGED toolvars
    /\ UNCHANGED <<conversation_cache, rturn, vsearch>>

\* what a caller can do to a list it holds
Mutations == {"append", "remove", "clear"}

Mutated(m, l, e) ==
    IF m = "append" THEN Append(l, e)
    ELSE IF m = "remove" THEN PopFirst(l)
    ELSE <<>>

\* the caller of get_conversation_history changes the list it was handed;
\* when that list is the store's own, the store's sequence changes with it
CallerMutates(m) ==
    /\ nops < MaxOps
    /\ ret.op = "get_conversation_history"
    /\ m = "remove" => ret.value # <<>>
    /\ LET c == ret.conv
           l == Mutated(m, ret.value, ConversationEntry(c, "user", <<"a">>, now))
       IN  /\ ret' = [ret EXCEPT !.op = "caller_mutation", !.value = l]
           /\ memory_cache' =
                 IF ReturnsOwnList(ret.known, ret.args[1], ret.args[2])
                 THEN SetList(memory_cache, c, l)
                 ELSE memory_cache
    /\ nops' = nops + 1
    /\ UNCHANGED <<now, log, pruned>>
    /\ UNCHANGED agentvars
    /\ UNCHANGED toolvars
    /\ UNCHANGED <<conversation_cache, rturn, vsearch>>

\* datetime.utcnow() advances between calls
Tick ==
    /\ now < MaxTime
    /\ now' = now + 1
    /\ UNCHANGED <<memory_cache, ret, nops, log, pruned>>
    /\ UNCHANGED agentvars
    /\ UNCHANGED toolvars
    /\ UNCHANGED <<conversation_cache, rturn, vsearch>>

\* =================================================================== agent
\* AgentStatus values
IDLE == "idle"
EXECUTING == "executing"
THINKING == "thinking"
TOOL_CALLING == "tool_calling"
ERROR == "error"

IsText(x) == x # NonText

\* Message: role and content (timestamp and metadata are never read)
Message(role, content) == [role |-> role, content |-> content]

add_message_replace(history, role, content) ==
    [history |-> <<Message(role, content)>>,
     raised |-> ~IsText(content)]

\* BaseAgente.add_message: appends, then formats len(content) for the log,
\* which raises TypeError on a content that has no length
add_message(history, role, content) ==
    [history |-> Append(history, Message(role, content)),
     raised |-> ~IsText(content)]

\* ExecutionResult.__init__: tokens_used or {}, metadata or {}
ExecutionResult(sucess, response, tokens_used, metadata) ==
    [success |-> sucess, response |-> response, tool_calls |-> <<>>,
     tokens_used |-> tokens_used, metadata |-> metadata]

\* ---------------------------------------------------- the retrieval gateway
\* what awaiting tool_registry.execute_tool("vector_search", ...) can give:
\* (True, JSON list of items), (False, message), or an exception
ResultLists ==
    UNION {{[i \in 1..n |-> [content |-> <<Docs[i]>>, score |-> f[i]]] :
               f \in [1..n -> Scores]} : n \in 0..MaxResults}

\* answers of up to MaxSnippets items, each scored at the threshold
LongResultLists ==
    {[i \in 1..n |-> [content |-> <<Docs[i]>>, score |-> 70]] :
        n \in 0..MaxSnippets}

LongGatewayOutcomes ==
    {[kind |-> "ok", results |-> r] : r \in LongResultLists}
    \cup {[kind |-> "fail", results |-> <<>>]}

GatewayOutcomes ==
    {[kind |-> "ok", results |-> r] : r \in ResultLists}
    \cup {[kind |-> "fail", results |-> <<>>],
          [kind |-> "raise", results |-> <<>>]}

RECURSIVE SumScores(_)
SumScores(r) == IF r = <<>> THEN 0 ELSE Head(r).score + SumScores(Tail(r))

\* a quotient kept exact: numerator and denominator
Ratio(n, d) == [num |-> n, den |-> d]

Zero == Ratio(0, 1)

\* ------------------------------------------------------ _perform_rag_search
_perform_rag_search_by_average(gw, threshold) ==
    IF gw.kind = "ok"
    THEN LET results == gw.results
             n == Len(results)
         IN  [results |-> results,
              avg_score |-> IF n > 0 THEN Ratio(SumScores(results), n) ELSE Zero,
              top_score |-> IF n > 0 THEN results[1].score ELSE 0,
              hit_rate |-> n > 0 /\ SumScores(results) >= threshold * n]
    ELSE [results |-> <<>>, avg_score |-> Zero, top_score |-> 0,
          hit_rate |-> FALSE]

_perform_rag_search(gw, threshold) ==
    IF gw.kind = "ok"
    THEN LET results == gw.results
             n == Len(results)
         IN  [results |-> results,
              avg_score |-> IF n > 0 THEN Ratio(SumScores(results), n) ELSE Zero,
              top_score |-> IF n > 0 THEN results[1].score ELSE 0,
              hit_rate |-> n > 0 /\ results[1].score >= threshold]
    ELSE [results |-> <<>>, avg_score |-> Zero, top_score |-> 0,
          hit_rate |-> FALSE]

\* the arguments execute passes to _perform_rag_search
RagTopK == 5
RagThreshold == 70

\* -------------------------------------------------------------- enrichment
Ordinals == <<"1.", "2.", "3.">>

TopThree_last(r) == SliceLast(r, 3)

\* the first three items, rag_results[:3]
TopThree(r) == SubSeq(r, 1, Min(3, Len(r)))

RECURSIVE ContextItems(_, _)
ContextItems(r, i) ==
    IF i > Len(r) THEN <<>>
    ELSE <<Ordinals[i]>> \o r[i].content \o ContextItems(r, i + 1)

BuildRagContext(rag_results) ==
    IF rag_results # <<>>
    THEN <<"Contexto", "do", "RAG:">> \o ContextItems(TopThree(rag_results), 1)
    ELSE <<>>

EnrichedInput(user_input, rag_context) ==
    IF rag_context # <<>> THEN user_input \o rag_context ELSE user_input

\* ---------------------------------------------------------- token estimate
\* len(text.split()) * 1.3, in tenths
WordsTimes13(text) == Len(text) * 13

\* int() of a non-negative float given in tenths
IntTrunc(tenths) == tenths \div 10

TokenCounts(enriched_input, response) ==
    LET input_tokens == WordsTimes13(enriched_input)
        output_tokens == WordsTimes13(response)
        total_tokens == input_tokens + output_tokens
    IN  [input |-> IntTrunc(input_tokens),
         output |-> IntTrunc(output_tokens),
         total |-> IntTrunc(total_tokens)]

\* ----------------------------------------------------------- AgentMetrics
\* the fields the turn computes (identifiers and timings are left out)
AgentMetrics(user_input, response, tokens, rag) ==
    [user_input |-> user_input,
     response |-> response,
     input_tokens |-> tokens.input,
     output_tokens |-> tokens.output,
     total_tokens |-> tokens.total,
     tool_calls_count |-> 0,
     rag_query |-> user_input,
     rag_results_count |-> Len(rag.results),
     rag_average_score |-> rag.avg_score,
     rag_top_chunk_score |-> rag.top_score,
     rag_hit_rate |-> rag.hit_rate,
     is_successful |-> TRUE]

EmptyDict == [x \in {} |-> x]

\* ------------------------------------------------- what execute returns
\* the outer handler (a fault before the generation block)
OuterFailure_no_description(desc) ==
    ExecutionResult(FALSE, <<"Erro", "critico">>, EmptyDict,
                    [error |-> desc])

OuterFailure(desc) ==
    ExecutionResult(FALSE, <<"Erro", "critico:">> \o desc, EmptyDict,
                    [error |-> desc])

\* the inner handler (a fault inside the generation block)
InnerFailure(desc) ==
    ExecutionResult(FALSE,
                    <<"Erro", "ao", "processar", "a", "solicitacao:">> \o desc,
                    EmptyDict, [error |-> desc])

SuccessResult(user_input, enriched_input, response, rag) ==
    LET tokens == TokenCounts(enriched_input, response)
        metrics == AgentMetrics(user_input, response, tokens, rag)
    IN  ExecutionResult(TRUE, response,
                        [input |-> metrics.input_tokens,
                         output |-> metrics.output_tokens,
                         total |-> metrics.total_tokens],
                        [metrics |-> metrics,
                         rag_results_count |-> metrics.rag_results_count,
                         rag_average_score |-> metrics.rag_average_score])

\* the status execute sets before it returns a success result
StatusOnSuccess_unset == EXECUTING

StatusOnSuccess == IDLE

\* ------------------------------------------------------- calls of execute
InFlight(q) == pc[q] \in {"rag", "llm"}

\* the locals of a call, and for the properties: how the gateway answered
\* (gw), whether the retrieval step is over (searched), the statuses the call
\* has set (trail), whether no other call was in flight with it (alone)
NoLocals == [user_input |-> <<>>, gw |-> "none", searched |-> FALSE,
             rag |-> _perform_rag_search([kind |-> "fail"], RagThreshold),
             enriched_input |-> <<>>, trail |-> <<>>, alone |-> FALSE]

NoResult == [kind |-> "none"]

NoFault == [stage |-> "none", desc |-> <<>>]

Fault(stage, desc) == [stage |-> stage, desc |-> desc]

\* the record of an ended call: what the caller got (res) and, for the
\* properties, how the call went and the agent status when it ended
Finished(p, kind, res, fault, l, trail, st) ==
    [proc |-> p, kind |-> kind, res |-> res, fault |-> fault,
     user_input |-> l.user_input, gw |-> l.gw, rag |-> l.rag,
     enriched_input |-> l.enriched_input, trail |-> trail, alone |-> l.alone,
     status |-> st]

\* another call starts while q is in flight
Joined(l, q) == IF InFlight(q) THEN [l EXCEPT !.alone = FALSE] ELSE l

\* execute up to the first suspension: set_status(THINKING), add_message,
\* then either the outer handler or the await of the retrieval gateway
ExecuteStart(p, user_input) ==
    /\ ~InFlight(p)
    /\ nexec < MaxTurns
    /\ nexec' = nexec + 1
    /\ LET am == add_message(conversation_history, "user", user_input)
           l == [NoLocals EXCEPT !.user_input = user_input,
                                 !.trail = <<THINKING>>,
                                 !.alone = \A q \in Procs : ~InFlight(q)]
       IN  /\ conversation_history' = am.history
           /\ IF am.raised
              THEN /\ status' = ERROR
                   /\ pc' = [pc EXCEPT ![p] = "done"]
                   /\ loc' = [q \in Procs |->
                                 IF q = p THEN NoLocals ELSE Joined(loc[q], q)]
                   /\ result' = Finished(p, "returned", OuterFailure(LenFault),
                                         Fault("append", LenFault), l,
                                         <<THINKING, ERROR>>, ERROR)
              ELSE /\ status' = THINKING
                   /\ pc' = [pc EXCEPT ![p] = "rag"]
                   /\ loc' = [q \in Procs |->
                                 IF q = p THEN l ELSE Joined(loc[q], q)]
                   /\ UNCHANGED result
    /\ UNCHANGED memvars
    /\ UNCHANGED toolvars
    /\ UNCHANGED <<rturn, vsearch>>

\* a version of RagReturn in which a failed retrieval ends the turn in the
\* outer handler
RagReturn_abort(p, gw) ==
    /\ pc[p] = "rag"
    /\ IF gw.kind = "ok"
       THEN /\ LET rag == _perform_rag_search(gw, RagThreshold)
               IN  loc' = [loc EXCEPT
                      ![p].rag = rag,
                      ![p].gw = gw.kind,
                      ![p].searched = TRUE,
                      ![p].enriched_input =
                          EnrichedInput(loc[p].user_input,
                                        BuildRagContext(rag.results)),
                      ![p].trail = Append(@, EXECUTING)]
            /\ status' = EXECUTING
            /\ pc' = [pc EXCEPT ![p] = "llm"]
            /\ UNCHANGED result
       ELSE /\ status' = ERROR
            /\ pc' = [pc EXCEPT ![p] = "done"]
            /\ loc' = [loc EXCEPT ![p] = NoLocals]
            /\ result' = Finished(p, "returned", OuterFailure(<<"retrieval">>),
                                  NoFault, [loc[p] EXCEPT !.gw = gw.kind],
                                  Append(loc[p].trail, ERROR), ERROR)
    /\ UNCHANGED <<conversation_history, nexec>>
    /\ UNCHANGED memvars
    /\ UNCHANGED toolvars
    /\ UNCHANGED <<rturn, vsearch>>

\* the retrieval await completes: _perform_rag_search returns, the context
\* is built, set_status(EXECUTING), the generation input is put together and
\* the generation call is awaited
RagReturn(p, gw) ==
    /\ pc[p] = "rag"
    /\ LET rag == _perform_rag_search(gw, RagThreshold)
       IN  loc' = [loc EXCEPT
              ![p].rag = rag,
              ![p].gw = gw.kind,
              ![p].searched = TRUE,
              ![p].enriched_input =
                  EnrichedInput(loc[p].user_input, BuildRagContext(rag.results)),
              ![p].trail = Append(@, EXECUTING)]
    /\ status' = EXECUTING
    /\ pc' = [pc EXCEPT ![p] = "llm"]
    /\ UNCHANGED <<conversation_history, result, nexec>>
    /\ UNCHANGED memvars
    /\ UNCHANGED toolvars
    /\ UNCHANGED <<rturn, vsearch>>

\* the generation await completes with a response: add_message, the token
\* estimate, the metrics record, set_status(IDLE), the success result
LlmReturn(p, response) ==
    /\ pc[p] = "llm"
    /\ LET am == add_message(conversation_history, "assistant", response)
       IN  /\ conversation_history' = am.history
           /\ status' = StatusOnSuccess
           /\ result' =
                 Finished(p, "returned",
                          SuccessResult(loc[p].user_input,
                                        loc[p].enriched_input, response,
                                        loc[p].rag),
                          NoFault, loc[p],
                          Append(loc[p].trail, StatusOnSuccess),
                          StatusOnSuccess)
    /\ pc' = [pc EXCEPT ![p] = "done"]
    /\ loc' = [loc EXCEPT ![p] = NoLocals]
    /\ UNCHANGED nexec
    /\ UNCHANGED memvars
    /\ UNCHANGED toolvars
    /\ UNCHANGED <<rturn, vsearch>>

\* the generation await raises: the inner handler
LlmRaise(p, desc) ==
    /\ pc[p] = "llm"
    /\ status' = ERROR
    /\ result' = Finished(p, "returned", InnerFailure(desc),
                          Fault("generation", desc), loc[p],
                          Append(loc[p].trail, ERROR), ERROR)
    /\ pc' = [pc EXCEPT ![p] = "done"]
    /\ loc' = [loc EXCEPT ![p] = NoLocals]
    /\ UNCHANGED <<conversation_history, nexec>>
    /\ UNCHANGED memvars
    /\ UNCHANGED toolvars
    /\ UNCHANGED <<rturn, vsearch>>

\* the task awaiting execute is cancelled at a suspension point:
\* asyncio.CancelledError is a BaseException, which neither `except
\* Exception` clause of execute or _perform_rag_search catches, so it
\* reaches the caller and no handler runs
Cancel(p) ==
    /\ InFlight(p)
    /\ result' = Finished(p, "cancelled", EmptyDict, Fault("cancel", <<>>),
                          loc[p], loc[p].trail, status)
    /\ pc' = [pc EXCEPT ![p] = "cancelled"]
    /\ loc' = [loc EXCEPT ![p] = NoLocals]
    /\ UNCHANGED <<status, conversation_history, nexec>>
    /\ UNCHANGED memvars
    /\ UNCHANGED toolvars
    /\ UNCHANGED <<rturn, vsearch>>

\* ======================================================= process_tool_call
\* the names registered in the tool registry
RegisteredTools == {"calculator"}

\* what awaiting tool_registry.execute_tool(tool_name, tool_input) can give:
\* the handler's (success, output), a handler's fault, and for a name that is
\* not registered a failure tuple
execute_tool(tool_name) ==
    IF tool_name \notin RegisteredTools
    THEN {Return(<<FALSE, <<"ToolNotFound:", tool_name>>>>)}
    ELSE {Return(<<TRUE, <<"4">>>>),
          Return(<<FALSE, <<"division", "by", "zero">>>>),
          Raise(<<"handler", "fault">>)}

NoToolCall == [pc |-> "idle", tool_name |-> None]

NoToolResult == [kind |-> "none"]

\* the record of an ended call: what the caller got (value) and, for the
\* properties, what the registry gave, the statuses the call set and the
\* agent status when it ended
ToolFinished(p, kind, tool_name, registry, value, trail, st) ==
    [proc |-> p, kind |-> kind, tool_name |-> tool_name, registry |-> registry,
     value |-> value, trail |-> trail, status |-> st]

\* the tuple of the except clause
ToolFailure_success(desc) ==
    <<TRUE, <<"Erro", "ao", "executar", "ferramenta:">> \o desc>>

ToolFailure(desc) ==
    <<FALSE, <<"Erro", "ao", "executar", "ferramenta:">> \o desc>>

\* process_tool_call up to its suspension: set_status(TOOL_CALLING), then the
\* await of the registry
ToolStart(p, tool_name) ==
    /\ tcall[p].pc # "await"
    /\ ntool < MaxToolCalls
    /\ ntool' = ntool + 1
    /\ status' = TOOL_CALLING
    /\ tcall' = [tcall EXCEPT ![p] = [pc |-> "await", tool_name |-> tool_name]]
    /\ UNCHANGED tresult
    /\ UNCHANGED <<conversation_history, pc, loc, result, nexec>>
    /\ UNCHANGED memvars
    /\ UNCHANGED <<rturn, vsearch>>

\* the registry call completes: set_status(IDLE), its tuple is returned
ToolReturn(p, out) ==
    /\ tcall[p].pc = "await"
    /\ out \in execute_tool(tcall[p].tool_name)
    /\ ~out.raised
    /\ status' = IDLE
    /\ tresult' = ToolFinished(p, "returned", tcall[p].tool_name, out,
                               out.value, <<TOOL_CALLING, IDLE>>, IDLE)
    /\ tcall' = [tcall EXCEPT ![p].pc = "done"]
    /\ UNCHANGED ntool
    /\ UNCHANGED <<conversation_history, pc, loc, result, nexec>>
    /\ UNCHANGED memvars
    /\ UNCHANGED <<rturn, vsearch>>

\* the registry call raises: the except clause
ToolRaise(p, out) ==
    /\ tcall[p].pc = "await"
    /\ out \in execute_tool(tcall[p].tool_name)
    /\ out.raised
    /\ status' = ERROR
    /\ tresult' = ToolFinished(p, "returned", tcall[p].tool_name, out,
                               ToolFailure(out.value),
                               <<TOOL_CALLING, ERROR>>, ERROR)
    /\ tcall' = [tcall EXCEPT ![p].pc = "done"]
    /\ UNCHANGED ntool
    /\ UNCHANGED <<conversation_history, pc, loc, result, nexec>>
    /\ UNCHANGED memvars
    /\ UNCHANGED <<rturn, vsearch>>

\* the task awaiting the registry is cancelled: CancelledError is not an
\* Exception, the except clause does not run
ToolCancel(p) ==
    /\ tcall[p].pc = "await"
    /\ tresult' = ToolFinished(p, "cancelled", tcall[p].tool_name,
                               NoToolResult, <<>>, <<TOOL_CALLING>>, status)
    /\ tcall' = [tcall EXCEPT ![p].pc = "cancelled"]
    /\ UNCHANGED <<status, ntool>>
    /\ UNCHANGED <<conversation_history, pc, loc, result, nexec>>
    /\ UNCHANGED memvars
    /\ UNCHANGED <<rturn, vsearch>>

\* ============================================================ other calls
NoRouteTurn == [pc |-> "idle", conversation_id |-> 0, message |-> <<>>]

NoSearch == [op |-> "none"]

\* ------------------------------------------------------------ vector search
\* similarity thresholds, in hundredths
Thresholds == {10 * k : k \in 0..10}

\* the call's outcome: the success flag and the items of the JSON list
SearchOutcome(success, results) == [success |-> success, results |-> results]

\* VectorSearchTool.execute: one item for each i in range(top_k, 5), scored
\* 0.95 - i * 0.05; threshold is not read
VectorSearchTool_execute(configured, top_k, threshold) ==
    IF ~configured THEN SearchOutcome(FALSE, <<>>)
    ELSE LET n == IF top_k < 5 THEN 5 - top_k ELSE 0
         IN  SearchOutcome(TRUE,
                 [k \in 1..n |-> [id |-> top_k + k - 1,
                                  score |-> 95 - (top_k + k - 1) * 5]])

\* what index.query(top_k=...) of the vector index answers: the best matches,
\* best first, under the key "matches"
Ranked == <<[id |-> 1, score |-> 90], [id |-> 2, score |-> 70],
            [id |-> 3, score |-> 50]>>

IndexQuery(top_k) ==
    {[matches |-> SubSeq(Ranked, 1, n)] : n \in 0..Min(top_k, Len(Ranked))}

\* dict.get(key, default)
DictGet(d, key, default) == IF key \in DOMAIN d THEN d[key] ELSE default

\* VectorStore.search: the matches read under the key "marches", those
\* below the threshold skipped
VectorStore_search(initialized, response, threshold) ==
    IF ~initialized THEN SearchOutcome(TRUE, <<>>)
    ELSE LET AtLeast(match) == ~(match.score < threshold)
         IN  SearchOutcome(TRUE,
                 SelectSeq(DictGet(response, "marches", <<>>), AtLeast))

Searched(op, configured, top_k, threshold, out) ==
    [op |-> op, configured |-> configured, top_k |-> top_k,
     threshold |-> threshold, success |-> out.success, results |-> out.results]

VectorSearch(configured, top_k, threshold) ==
    /\ vsearch' = Searched("vector_search", configured, top_k, threshold,
                           VectorSearchTool_execute(configured, top_k,
                                                    threshold))
    /\ UNCHANGED rturn
    /\ UNCHANGED memvars
    /\ UNCHANGED agentvars
    /\ UNCHANGED toolvars

StoreSearch(initialized, response, top_k, threshold) ==
    /\ vsearch' = Searched("VectorStore.search", initialized, top_k, threshold,
                           VectorStore_search(initialized, response, threshold))
    /\ UNCHANGED rturn
    /\ UNCHANGED memvars
    /\ UNCHANGED agentvars
    /\ UNCHANGED toolvars

\* --------------------------------------------------- the execute_agent route
\* the route up to its suspension: conversation_memory.add_entry of the user
\* message, then the await of agent.execute
RouteStart(p, c, message) ==
    /\ rturn[p].pc # "await"
    /\ nops < MaxOps
    /\ memory_cache' = add_entry(memory_cache, c, "user", message, now)
    /\ log' = [log EXCEPT ![c] =
                  Append(@, ConversationEntry(c, "user", message, now))]
    /\ nops' = nops + 1
    /\ ret' = Call("add_entry", c, <<"user", message>>,
                   Return(ConversationEntry(c, "user", message, now)))
    /\ rturn' = [rturn EXCEPT ![p] = [pc |-> "await", conversation_id |-> c,
                                      message |-> message]]
    /\ UNCHANGED <<now, pruned, conversation_cache, vsearch>>
    /\ UNCHANGED agentvars
    /\ UNCHANGED toolvars

\* the await gives a successful result: add_entry of the assistant response
RouteReturn(p, response) ==
    /\ rturn[p].pc = "await"
    /\ nops < MaxOps
    /\ LET c == rturn[p].conversation_id
       IN  /\ memory_cache' =
                 add_entry(memory_cache, c, "assistant", response, now)
           /\ log' = [log EXCEPT ![c] =
                  Append(@, ConversationEntry(c, "assistant", response, now))]
           /\ ret' = Call("add_entry", c, <<"assistant", response>>,
                   Return(ConversationEntry(c, "assistant", response, now)))
    /\ nops' = nops + 1
    /\ rturn' = [rturn EXCEPT ![p].pc = "done"]
    /\ UNCHANGED <<now, pruned, conversation_cache, vsearch>>
    /\ UNCHANGED agentvars
    /\ UNCHANGED toolvars

\* the await gives a failed result or raises: HTTPException, nothing is added
RouteRaise(p) ==
    /\ rturn[p].pc = "await"
    /\ rturn' = [rturn EXCEPT ![p].pc = "failed"]
    /\ UNCHANGED <<vsearch>>
    /\ UNCHANGED memvars
    /\ UNCHANGED agentvars
    /\ UNCHANGED toolvars

\* ========================================================= specifications
\* the state in which the store holds the lists of mc, appended at instant 0
InitWith(mc) ==
    /\ memory_cache = mc
    /\ now = 0
    /\ ret = [op |-> "none", conv |-> 0, known |-> FALSE, args |-> <<>>,
              raised |-> FALSE, value |-> <<>>, prev |-> <<>>]
    /\ nops = 0
    /\ log = [c \in ConvIds |-> IF Known(mc, c) THEN mc[c] ELSE <<>>]
    /\ pruned = [c \in ConvIds |-> FALSE]
    /\ status = IDLE
    /\ conversation_history = <<>>
    /\ pc = [p \in Procs |-> "idle"]
    /\ loc = [p \in Procs |-> NoLocals]
    /\ result = NoResult
    /\ nexec = 0
    /\ tcall = [p \in Procs |-> NoToolCall]
    /\ tresult = NoToolResult
    /\ ntool = 0
    /\ conversation_cache = [c \in {} |-> <<>>]
    /\ rturn = [p \in Procs |-> NoRouteTurn]
    /\ vsearch = NoSearch

\* the state after construction: the store holds nothing
Init == InitWith([c \in {} |-> <<>>])

\* stores in which conversation 9 already holds one entry, or as many as fit
HeldStores ==
    {[c \in {9} |-> [i \in 1..k |-> ConversationEntry(9, "user", <<"a">>, 0)]] :
        k \in {1, max_memory_size}}

InitHeld == \E mc \in HeldStores : InitWith(mc)

NextWrites ==
    \/ \E c \in ConvIds, i \in Inputs : AddEntry(c, i[1], i[2])
    \/ \E c \in ConvIds : ClearConversation(c)
    \/ \E c \in ConvIds, d \in DaysArgs : CleanupOldEntries(c, d)
    \/ Tick

NextStore ==
    \/ \E c \in ConvIds, i \in Inputs : AddEntry(c, i[1], i[2])
    \/ \E c \in ConvIds, limit \in Limits, include_system \in BOOLEAN :
          GetConversationHistory(c, limit, include_system)
    \/ \E c \in ConvIds, n \in 1..MaxLimit : GetConversationContext(c, n)
    \/ \E c \in ConvIds : ClearConversation(c)
    \/ \E c \in ConvIds : GetStatistics(c)
    \/ \E c \in ConvIds, k \in Keywords, r \in {None, "user"} :
          SearchInHistory(c, k, r)
    \/ \E c \in ConvIds, d \in DaysArgs : GetOldestEntries(c, d)
    \/ \E c \in ConvIds, d \in DaysArgs : CleanupOldEntries(c, d)
    \/ \E c \in ConvIds, f \in Formats : ExportConversation(c, f)
    \/ GetMemoryStats
    \/ Tick

NextStoreCaller ==
    \/ \E c \in ConvIds, i \in Inputs : AddEntry(c, i[1], i[2])
    \/ \E c \in ConvIds, limit \in Limits, include_system \in BOOLEAN :
          GetConversationHistory(c, limit, include_system)
    \/ \E m \in Mutations : CallerMutates(m)

NextRoute ==
    \/ \E p \in Procs, c \in ConvIds, m \in Contents : RouteStart(p, c, m)
    \/ \E p \in Procs, r \in Contents : RouteReturn(p, r)
    \/ \E p \in Procs : RouteRaise(p)
    \/ Tick

NextSearch ==
    \/ \E configured \in BOOLEAN, top_k \in 0..MaxTopK, t \in Thresholds :
          VectorSearch(configured, top_k, t)
    \/ \E initialized \in BOOLEAN, top_k \in 0..MaxTopK, t \in Thresholds :
          \E response \in IndexQuery(top_k) :
              StoreSearch(initialized, response, top_k, t)

NextAgent ==
    \/ \E p \in Procs, u \in UserInputs \cup {NonText} : ExecuteStart(p, u)
    \/ \E p \in Procs, gw \in GatewayOutcomes : RagReturn(p, gw)
    \/ \E p \in Procs, r \in Responses : LlmReturn(p, r)
    \/ \E p \in Procs, d \in GenFaults : LlmRaise(p, d)
    \/ \E p \in Procs : Cancel(p)

NextAgentLong ==
    \/ \E p \in Procs, u \in UserInputs \cup {NonText} : ExecuteStart(p, u)
    \/ \E p \in Procs, gw \in LongGatewayOutcomes : RagReturn(p, gw)
    \/ \E p \in Procs, r \in Responses : LlmReturn(p, r)
    \/ \E p \in Procs, d \in GenFaults : LlmRaise(p, d)
    \/ \E p \in Procs : Cancel(p)

AllOutcomes == UNION {execute_tool(n) : n \in ToolNames}

NextTool ==
    \/ \E p \in Procs, n \in ToolNames : ToolStart(p, n)
    \/ \E p \in Procs, out \in AllOutcomes : ToolReturn(p, out)
    \/ \E p \in Procs, out \in AllOutcomes : ToolRaise(p, out)
    \/ \E p \in Procs : ToolCancel(p)

\* the memory store under any sequence of calls
SpecStore == Init /\ [][NextStore]_vars

\* the store and a caller that changes the lists it reads
SpecStoreCaller == Init /\ [][NextStoreCaller]_vars

\* concurrent calls of the execute_agent route on the one store
SpecRoute == Init /\ [][NextRoute]_vars

\* the two vector searches, called with any cap and threshold
SpecSearch == Init /\ [][NextSearch]_vars

\* the calls that write the store, on a store that holds a conversation
SpecStoreHeld == InitHeld /\ [][NextWrites]_vars

\* the shared agent under concurrent calls of execute
SpecAgent == Init /\ [][NextAgent]_vars

\* the shared agent when the gateway answers with up to MaxSnippets items
SpecAgentLong == Init /\ [][NextAgentLong]_vars

\* the shared agent under concurrent calls of process_tool_call
SpecTool == Init /\ [][NextTool]_vars

Next == NextStore \/ NextAgent \/ NextTool

Spec == Init /\ [][Next]_vars

\* ================================================================ properties
Returned == result.kind = "returned"

Succeeded == Returned /\ result.res.success

\* the stored list of the conversation the last store call named
StoredOfCall == IF ret.known THEN memory_cache[ret.conv] ELSE <<>>

\* ------------------------------------------------------------------- C1
\* C1: after add_entry returns, a conversation never holds more than
\* max_memory_size entries, and as long as nothing but add_entry touched it,
\* it holds exactly the max_memory_size most recently added entries, in the
\* order they were added (all of them while fewer were added).
C1_BoundedFifo ==
    \A c \in DOMAIN memory_cache :
        /\ Len(memory_cache[c]) <= max_memory_size
        /\ ~pruned[c] => memory_cache[c] = LastN(log[c], max_memory_size)

\* an entry has been evicted
C1_Witness ==
    \E c \in DOMAIN memory_cache :
        /\ ~pruned[c]
        /\ Len(log[c]) > max_memory_size
        /\ ret.op = "add_entry"

\* ------------------------------------------------------------------- C2
\* C2: in the metrics of every successful execute, total_tokens equals
\* input_tokens + output_tokens.
C2_TotalIsSum ==
    Succeeded =>
        LET m == result.res.metadata.metrics
        IN  m.total_tokens = m.input_tokens + m.output_tokens

\* ------------------------------------------------------------------- C3
\* C3 as stated: a fault raised at any stage of the turn, the retrieval
\* included, makes execute return success=false with the fault description
\* in the response, and the status is Error when it returns.
C3_AnyFaultFails ==
    (Returned
        /\ (result.fault.stage \in {"append", "generation"}
            \/ result.gw = "raise")) =>
        /\ ~result.res.success
        /\ result.status = ERROR

\* C3 amended: a fault raised while appending to the history or in the
\* generation call never reaches the caller: execute returns success=false,
\* the response embeds the fault description, and the status is Error when
\* it returns.  (A fault of the retrieval gateway is absorbed by the
\* retrieval step and does not make the turn fail.)
C3_UncaughtFaultFails ==
    (result.kind # "none"
        /\ result.fault.stage \in {"append", "generation"}) =>
        /\ Returned
        /\ ~result.res.success
        /\ IsSubstr(result.fault.desc, result.res.response)
        /\ result.fault.desc # <<>>
        /\ result.status = ERROR

\* both handlers have run: a call failed in generation after another failed
\* at the append
C3_Witness ==
    /\ Returned
    /\ result.fault.stage = "generation"
    /\ \E i \in 1..Len(conversation_history) :
          ~IsText(conversation_history[i].content)

\* ------------------------------------------------------------------- C4
\* C4: when the retrieval gateway reports failure or raises, the retrieval
\* step yields no results, average score 0, top score 0 and hit_rate false,
\* the call goes on to generation with the raw user input, and if generation
\* succeeds execute returns success with rag_results_count 0 and
\* rag_hit_rate false.
C4_RetrievalFailureTolerated ==
    /\ \A p \in Procs :
          (loc[p].searched /\ loc[p].gw \in {"fail", "raise"}) =>
              /\ pc[p] = "llm"
              /\ loc[p].rag.results = <<>>
              /\ loc[p].rag.avg_score = Zero
              /\ loc[p].rag.top_score = 0
              /\ loc[p].rag.hit_rate = FALSE
              /\ loc[p].enriched_input = loc[p].user_input
    /\ (result.kind # "none" /\ result.gw \in {"fail", "raise"}) =>
          /\ result.fault.stage \in {"none", "generation", "cancel"}
          /\ result.fault.stage = "none" =>
                /\ Succeeded
                /\ result.res.metadata.metrics.rag_results_count = 0
                /\ result.res.metadata.metrics.rag_hit_rate = FALSE
                /\ result.res.metadata.rag_results_count = 0

\* a turn succeeded although its retrieval raised
C4_Witness == Succeeded /\ result.gw = "raise"

\* ------------------------------------------------------------------- C5
\* C5: after every retrieval, and in every metrics record, rag_hit_rate is
\* true exactly when there is at least one result and the recorded top score
\* is at least the threshold of the call.
C5_HitRate ==
    /\ \A p \in Procs :
          loc[p].searched =>
              (loc[p].rag.hit_rate <=>
                  (Len(loc[p].rag.results) > 0
                   /\ loc[p].rag.top_score >= RagThreshold))
    /\ Succeeded =>
          LET m == result.res.metadata.metrics
          IN  m.rag_hit_rate <=>
                  (m.rag_results_count > 0
                   /\ m.rag_top_chunk_score >= RagThreshold)

\* a hit whose average score is below the threshold
C5_Witness ==
    /\ Succeeded
    /\ result.res.metadata.metrics.rag_hit_rate
    /\ result.res.metadata.metrics.rag_results_count >= 2
    /\ result.res.metadata.metrics.rag_average_score.num
          < RagThreshold * result.res.metadata.metrics.rag_average_score.den

C7_CancelForcesError ==
    result.kind = "cancelled" =>
        /\ result.status = ERROR
        /\ \E i \in 1..Len(conversation_history) :
              conversation_history[i] = Message("user", result.user_input)

\* ------------------------------------------------------------------- C8
\* C8: every result execute returns, success or failure, has a metrics
\* record in its metadata.
C8_ResultCarriesMetrics ==
    Returned => "metrics" \in DOMAIN result.res.metadata

\* ------------------------------------------------------------------- C9
\* C9: on a conversation id the store does not hold, none of the seven calls
\* below raises and each returns its empty value: get_conversation_history,
\* search_in_history and get_oldest_entries the empty list,
\* get_conversation_context the empty string, get_statistics zero counts,
\* cleanup_old_entries 0 and clear_conversation false.
C9_UnknownIsEmpty ==
    (ret.op \in {"get_conversation_history", "get_conversation_context",
                 "search_in_history", "get_oldest_entries", "get_statistics",
                 "cleanup_old_entries", "clear_conversation"}
        /\ ~ret.known) =>
        /\ ~ret.raised
        /\ ret.op \in {"get_conversation_history", "search_in_history",
                       "get_oldest_entries", "get_conversation_context"}
              => ret.value = <<>>
        /\ ret.op = "get_statistics" =>
              /\ ret.value.total_messages = 0
              /\ ret.value.user_messages = 0
              /\ ret.value.assistant_messages = 0
              /\ ret.value.total_characters = 0
              /\ ret.value.avg_user_message_length = 0
              /\ ret.value.avg_assistant_message_length = 0
        /\ ret.op = "cleanup_old_entries" => ret.value = 0
        /\ ret.op = "clear_conversation" => ret.value = FALSE
        /\ ret.conv \notin DOMAIN memory_cache

\* a read of a conversation that was cleared, while the store holds another
C9_Witness ==
    /\ ret.op = "get_conversation_context"
    /\ ~ret.known
    /\ nops = MaxOps
    /\ DOMAIN memory_cache = {}
    /\ \E c \in ConvIds : log[c] = <<>> /\ ret.conv = c

\* ------------------------------------------------------------------ C10
\* C10: called with a limit >= 0, get_conversation_history returns the last
\* min(limit, n) entries of the history (without its system entries when
\* include_system is false), n being the length of that history, and never
\* more than limit entries.
C10_LastLimitEntries ==
    (ret.op = "get_conversation_history" /\ ret.args[1] # NoInt) =>
        LET limit == ret.args[1][1]
            filtered == IF ret.args[2] THEN StoredOfCall
                        ELSE SelectSeq(StoredOfCall, NotSystem)
        IN  /\ ret.value = LastN(filtered, Min(limit, Len(filtered)))
            /\ Len(ret.value) <= limit

\* C11: clear_conversation on a conversation the store holds returns true and
\* leaves the conversation unknown: its history reads empty and
\* get_memory_stats no longer counts it; the same call made again right after
\* returns false
C11_ClearThenUnknown ==
    ret.op = "clear_conversation" =>
        /\ ret.known =>
              /\ ret.value = TRUE
              /\ ~Known(memory_cache, ret.conv)
              /\ get_conversation_history(memory_cache, ret.conv, NoInt, TRUE)
                     = <<>>
              /\ ret.conv \notin
                     DOMAIN get_memory_stats(memory_cache).conversations_breakdown
              /\ get_memory_stats(memory_cache).total_conversations
                     = Cardinality({c \in ConvIds : log[c] # <<>>})
        /\ ret.prev = <<TRUE>> => ret.value = FALSE /\ ~ret.known

C11_Witness ==
    /\ ret.op = "clear_conversation"
    /\ ret.prev = <<TRUE>>
    /\ ret.value = FALSE
    /\ get_memory_stats(memory_cache).total_conversations = 0

\* the formats export_conversation documents (the text format is "txt")
SupportedFormats == {"json", "txt", "csv"}

\* the in-memory sequence of the conversation the last store call named
InMemory == IF Known(memory_cache, ret.conv) THEN memory_cache[ret.conv] ELSE <<>>

\* C12: export_conversation with a format outside the supported three raises
\* the unsupported-format error, and no other store call raises
C12_OnlyUnsupportedFormatFaults ==
    /\ (ret.op = "export_conversation" /\ ret.args[1] \notin SupportedFormats)
          => ret.raised /\ ret.value = "ValueError"
    /\ ret.raised
          => ret.op = "export_conversation" /\ ret.args[1] \notin SupportedFormats

\* C13: export_conversation with json, text or csv returns a serialization of
\* the full history and does not raise, for every conversation
C13_SupportedFormatsReturn ==
    (ret.op = "export_conversation" /\ ret.args[1] \in SupportedFormats)
        => /\ ~ret.raised
           /\ ret.value # <<>>

C15_RoleRecoverable ==
    \A c \in DOMAIN memory_cache :
        \A i \in 1..Len(memory_cache[c]) :
            \A r \in Roles \ {memory_cache[c][i].role} :
                \A f \in SupportedFormats :
                    LET other == SetList(memory_cache, c,
                                    [memory_cache[c] EXCEPT ![i].role = r])
                        a == export_conversation(memory_cache, c, f, now)
                        b == export_conversation(other, c, f, now)
                    IN  ~a.raised /\ ~b.raised /\ a.value # b.value

\* the list the store holds for conversation c, empty when c is unknown
ListOf(mc, c) == IF Known(mc, c) THEN mc[c] ELSE <<>>

\* C16: a call of cleanup_old_entries(c, days) leaves of the conversation
\* exactly the entries whose timestamp is not earlier than now - days, in
\* their order, and returns the number of entries it removed; when it removes
\* none, or the conversation is unknown, it returns 0 and the store is as it was
C16_CleanupRemovesOld ==
    [][(ret'.op = "cleanup_old_entries" /\ nops' = nops + 1) =>
          LET c == ret'.conv
              before == ListOf(memory_cache, c)
              after == ListOf(memory_cache', c)
              Kept(e) == ~(e.timestamp < now - ret'.args[1])
          IN  /\ after = SelectSeq(before, Kept)
              /\ ~ret'.raised
              /\ ret'.value = Len(before) - Len(after)
              /\ \A d \in DOMAIN memory_cache \ {c} :
                    ListOf(memory_cache', d) = memory_cache[d]
              /\ (ret'.value = 0 \/ ~Known(memory_cache, c))
                    => ret'.value = 0 /\ memory_cache' = memory_cache]_vars

C16_Witness ==
    /\ ret.op = "cleanup_old_entries"
    /\ ret.value = 1
    /\ Known(memory_cache, ret.conv)
    /\ Len(memory_cache[ret.conv]) = 1
    /\ memory_cache[ret.conv][1].timestamp = now - ret.args[1]

\* C17: get_statistics reports the length of the in-memory history, the
\* number of user entries and of assistant entries, and an average length of 0
\* for a role with no entry; it never raises
C17_StatisticsCounts ==
    ret.op = "get_statistics" =>
        LET h == InMemory
            CountRole(role) == Cardinality({i \in 1..Len(h) : h[i].role = role})
        IN  /\ ~ret.raised
            /\ ret.value.total_messages = Len(h)
            /\ ret.value.user_messages = CountRole("user")
            /\ ret.value.assistant_messages = CountRole("assistant")
            /\ CountRole("user") = 0
                  => ret.value.avg_user_message_length = 0
            /\ CountRole("assistant") = 0
                  => ret.value.avg_assistant_message_length = 0

C17_Witness ==
    /\ ret.op = "get_statistics"
    /\ ret.value.total_messages = 2
    /\ ret.value.user_messages = 1
    /\ ret.value.assistant_messages = 0
    /\ ret.value.avg_assistant_message_length = 0
    /\ ret.value.avg_user_message_length > 0

\* C18: in the metrics of every successful execute, input_tokens is 1.3 times
\* the word count of the generation input rounded to the nearest integer, and
\* output_tokens is 1.3 times the word count of the response rounded to the
\* nearest integer (no further than a half from the product; in tenths, 5)
C18_TokensRounded ==
    Succeeded =>
        LET m == result.res.metadata.metrics
            Near(tokens, words) ==
                /\ 10 * tokens - 13 * words <= 5
                /\ 13 * words - 10 * tokens <= 5
        IN  /\ Near(m.input_tokens, Len(result.enriched_input))
            /\ Near(m.output_tokens, Len(result.res.response))

\* a word that comes from a retrieved snippet
IsSnippetWord(w) == \E i \in 1..Len(Docs) : Docs[i] = w

\* generation input g is user input u alone when the result list r is empty;
\* otherwise it begins with u, and the snippet words after it are those of
\* the first min(3, Len(r)) items of r, in their order
EnrichedFrom(u, r, g) ==
    IF r = <<>> THEN g = u
    ELSE /\ Len(g) > Len(u)
         /\ SubSeq(g, 1, Len(u)) = u
         /\ SelectSeq(SubSeq(g, Len(u) + 1, Len(g)), IsSnippetWord)
               = [i \in 1..Min(3, Len(r)) |-> r[i].content[1]]

\* C19: the text passed to generation is the raw user input when retrieval
\* returned no result, and otherwise the user input followed by a block built
\* from the first min(3, n) retrieved snippets in the gateway's order and
\* from no other snippet
C19_EnrichmentTopThree ==
    /\ \A p \in Procs :
          pc[p] = "llm" =>
              EnrichedFrom(loc[p].user_input, loc[p].rag.results,
                           loc[p].enriched_input)
    /\ Succeeded =>
          EnrichedFrom(result.user_input, result.rag.results,
                       result.enriched_input)

C19_Witness ==
    /\ Succeeded
    /\ Len(result.rag.results) = 4
    /\ Len(result.enriched_input) = Len(result.user_input) + 9
    /\ \E p \in Procs : pc[p] = "llm" /\ loc[p].rag.results = <<>>
                          /\ loc[p].enriched_input = loc[p].user_input

\* C20: a call of process_tool_call whose registry call completes or faults
\* returns to its caller: with the registry's own tuple and the statuses
\* Tool_Calling then Idle when the registry call completed, with success
\* false, a text holding the fault's description and the statuses
\* Tool_Calling then Error when it faulted; for a tool name that is not
\* registered the success flag is false
C20_ToolCallReturns ==
    /\ tresult.kind \in {"none", "returned", "cancelled"}
    /\ tresult.kind = "cancelled" => tresult.registry = NoToolResult
    /\ tresult.kind = "returned" =>
          /\ ~tresult.registry.raised =>
                /\ tresult.value = tresult.registry.value
                /\ tresult.trail = <<TOOL_CALLING, IDLE>>
                /\ tresult.status = IDLE
          /\ tresult.registry.raised =>
                /\ tresult.value[1] = FALSE
                /\ IsSubstr(tresult.registry.value, tresult.value[2])
                /\ tresult.trail = <<TOOL_CALLING, ERROR>>
                /\ tresult.status = ERROR
          /\ tresult.tool_name \notin RegisteredTools
                => tresult.value[1] = FALSE

C20_Witness ==
    /\ tresult.kind = "returned"
    /\ tresult.registry.raised
    /\ tresult.value[1] = FALSE
    /\ status = ERROR
    /\ \E p \in Procs : tcall[p].pc = "done"
                          /\ tcall[p].tool_name \notin RegisteredTools

\* C21: after every add_entry on a conversation, the store holds a
\* Conversation view of it whose updated_at is not earlier than the timestamp
\* of the conversation's latest entry
C21_UpdatedAtRefreshed ==
    ret.op = "add_entry" =>
        /\ Known(conversation_cache, ret.conv)
        /\ conversation_cache[ret.conv].updated_at
              >= memory_cache[ret.conv][Len(memory_cache[ret.conv])].timestamp

\* C22: whatever limit and include_system were, a caller that changes the
\* list get_conversation_history returned leaves the store as it was
C22_NoAliasing ==
    [][ret'.op = "caller_mutation" => memory_cache' = memory_cache]_vars

\* a is b with some items left out
RECURSIVE IsSubsequence(_, _)
IsSubsequence(a, b) ==
    IF a = <<>> THEN TRUE
    ELSE IF b = <<>> THEN FALSE
    ELSE IF Head(a) = Head(b) THEN IsSubsequence(Tail(a), Tail(b))
    ELSE IsSubsequence(a, Tail(b))

\* C23: in every state of the store the entries of each conversation are in
\* non-decreasing timestamp order, and in the order in which add_entry
\* appended them
C23_TimestampOrder ==
    \A c \in DOMAIN memory_cache :
        /\ \A i, j \in 1..Len(memory_cache[c]) :
              i < j => memory_cache[c][i].timestamp
                          <= memory_cache[c][j].timestamp
        /\ IsSubsequence(memory_cache[c], log[c])

C23_Witness ==
    \E c \in DOMAIN memory_cache :
        /\ Len(memory_cache[c]) >= 2
        /\ Len(log[c]) > Len(memory_cache[c])
        /\ memory_cache[c][1].timestamp
              < memory_cache[c][Len(memory_cache[c])].timestamp

\* entries appended so far, over all conversations
RECURSIVE Appended(_)
Appended(convs) ==
    IF convs = {} THEN 0
    ELSE LET c == CHOOSE x \in convs : TRUE
         IN  Len(log[c]) + Appended(convs \ {c})

\* C24: in every state in which concurrent turns on a conversation can
\* observe the store, each add_entry made so far has taken effect whole: one
\* entry per call was appended, none twice, the conversation holds the last
\* max_memory_size of them in the order of the calls, and never more
C24_AddEntryAtomic ==
    /\ Appended(ConvIds) = nops
    /\ \A c \in ConvIds :
          /\ Known(memory_cache, c) <=> log[c] # <<>>
          /\ Known(memory_cache, c) =>
                /\ Len(memory_cache[c]) = Min(Len(log[c]), max_memory_size)
                /\ \A i \in 1..Len(memory_cache[c]) :
                      memory_cache[c][i]
                         = log[c][Len(log[c]) - Len(memory_cache[c]) + i]

C24_Witness ==
    \E p, q \in Procs :
        /\ rturn[p].pc = "done"
        /\ rturn[q].pc = "await"
        /\ rturn[p].conversation_id = rturn[q].conversation_id
        /\ LET c == rturn[p].conversation_id
           IN  /\ Len(log[c]) = 3
               /\ log[c][1].content = rturn[p].message
               /\ log[c][2].content = rturn[q].message
               /\ log[c][3].role = "assistant"
               /\ Len(memory_cache[c]) = max_memory_size

\* C25: every item a vector search returns has a score of at least the
\* threshold of the call, and the items are in descending score order
C25_ResultsAboveThreshold ==
    vsearch.op # "none" =>
        /\ \A i \in 1..Len(vsearch.results) :
              vsearch.results[i].score >= vsearch.threshold
        /\ \A i, j \in 1..Len(vsearch.results) :
              i < j => vsearch.results[i].score >= vsearch.results[j].score

\* C26: a vector search called with result cap top_k returns at most top_k
\* items
C26_AtMostTopK ==
    vsearch.op # "none" => Len(vsearch.results) <= vsearch.top_k

\* C27: while some call of execute is suspended in its retrieval or its
\* generation step, the status of the shared agent is neither Idle nor Error
C27_BusyWhileInFlight ==
    status \in {IDLE, ERROR} => \A p \in Procs : ~InFlight(p)

\* the calls of the store that only read
ReadOps == {"get_conversation_history", "get_conversation_context",
            "get_statistics", "search_in_history", "export_conversation",
            "get_oldest_entries", "get_memory_stats"}

\* C28: a call of a read operation of the store leaves the store as it was;
\* on an unknown conversation id it creates no list for it, and
\* total_conversations stays the same
C28_ReadsLeaveStore ==
    [][(nops' = nops + 1 /\ ret'.op \in ReadOps) =>
          /\ memory_cache' = memory_cache
          /\ ~Known(memory_cache, ret'.conv) => ~Known(memory_cache', ret'.conv)
          /\ get_memory_stats(memory_cache').total_conversations
                = get_memory_stats(memory_cache).total_conversations]_vars

C28_Witness ==
    /\ ret.op \in ReadOps \ {"get_memory_stats"}
    /\ ~ret.known
    /\ ~Known(memory_cache, ret.conv)
    /\ get_memory_stats(memory_cache).total_conversations = 1

\* C29: add_entry, clear_conversation and cleanup_old_entries called on one
\* conversation leave every other conversation as it was: held or not, and
\* with the same entries in the same order
C29_OtherConversationsKept ==
    [][(/\ nops' = nops + 1
        /\ ret'.op \in {"add_entry", "clear_conversation",
                        "cleanup_old_entries"}) =>
          \A b \in ConvIds \ {ret'.conv} :
              /\ Known(memory_cache', b) <=> Known(memory_cache, b)
              /\ ListOf(memory_cache', b) = ListOf(memory_cache, b)]_vars

C29_Witness ==
    /\ ret.op = "add_entry"
    /\ ret.conv = 7
    /\ Len(log[7]) > max_memory_size
    /\ Len(memory_cache[7]) = max_memory_size
    /\ Known(memory_cache, 9)
    /\ Len(memory_cache[9]) = max_memory_size
    /\ memory_cache[9] = log[9]

\* the roles of the messages of a history, in order
RolesOf(history) == [i \in 1..Len(history) |-> history[i].role]

\* the step in which the generation of call p ends and execute returns a
\* success result
GenerationSucceeds(p) ==
    /\ pc[p] = "llm"
    /\ pc'[p] = "done"
    /\ result'.res.success

\* C30: the step that starts a call of execute appends exactly one user
\* message, and it is the step that ends before retrieval is awaited; the
\* step in which generation succeeds appends exactly one assistant message,
\* the response; every other step of a turn (retrieval ending, generation
\* failing, cancellation) leaves the history as it was, so a turn adds 2
\* messages on success, 1 on failure, and the history never shrinks
C30_HistoryGrowth ==
    [][/\ nexec' = nexec + 1 =>
            /\ Len(conversation_history') = Len(conversation_history) + 1
            /\ SubSeq(conversation_history', 1, Len(conversation_history))
                  = conversation_history
            /\ conversation_history'[Len(conversation_history')].role = "user"
            /\ \A p \in Procs : pc[p] # "rag" /\ pc'[p] = "rag" =>
                   conversation_history'[Len(conversation_history')].content
                     = loc'[p].user_input
       /\ \A p \in Procs : GenerationSucceeds(p) =>
              conversation_history' =
                 Append(conversation_history,
                        Message("assistant", result'.res.response))
       /\ (nexec' = nexec /\ \A p \in Procs : ~GenerationSucceeds(p)) =>
              conversation_history' = conversation_history]_vars

C30_Witness ==
    /\ result.kind = "returned"
    /\ result.fault.stage = "generation"
    /\ ~result.res.success
    /\ RolesOf(conversation_history) = <<"user", "assistant", "user">>

====
